---- MODULE Spec2Model ----
(***************************************************************************)
(* Watchlist data synchronization of the personalcfa dashboard.            *)
(*                                                                         *)
(*   Symbol Store        WatchlistManager (lib/watchlist.ts): a list of    *)
(*                       {symbol, name, addedAt} records kept as one JSON  *)
(*                       value in localStorage.                            *)
(*   Synchronizer        the useWatchlist hook: a 'watchlist-symbols'      *)
(*                       query that reads the store, a 'watchlist-data'    *)
(*                       query keyed by the symbol list that asks the      *)
(*                       quote route once per symbol, an effect that       *)
(*                       publishes the query's data with setWatchlist, and *)
(*                       two mutations that change the store and           *)
(*                       invalidate 'watchlist-symbols'.                   *)
(*   Published view      useAppStore.watchlist.                            *)
(*   Page                the selection and the recent searches of          *)
(*                       useAppStore, the handlers of Watchlist and        *)
(*                       TickerSearch that call the hook, the chat of      *)
(*                       AgentPanel and the debounced search of            *)
(*                       TickerSearch.                                     *)
(*                                                                         *)
(* Numbers are integers (a price of 120 stands for 120.00); Math.random    *)
(* and the quote of the market are choices from small sets.  The sparkline *)
(* series of an entry is presentation data and is left out of the entry.   *)
(***************************************************************************)
EXTENDS Integers, Sequences, FiniteSets, TLC

VARIABLES
    stored,         \* localStorage['personal-cfa-watchlist'], parsed
    clock,          \* Date.now()
    call,           \* the operation that ran last, with its arguments
    ret,            \* what it returned: "true", "false" or "void"
    mounted,        \* a component using useWatchlist is mounted
    symbols,        \* data of the 'watchlist-symbols' query (default [])
    queries,        \* cache of the 'watchlist-data' queries, by symbol list
    watchlist,      \* useAppStore.watchlist, the published view
    generation,     \* number of invalidations of 'watchlist-symbols'
    mutationStatus, \* status of the mutation that ran last
    lastPublished,  \* which batch the published view came from
    publishedGens,  \* generations whose batch has been published
    reloads,        \* number of page reloads so far
    batches,        \* number of fetch batches started since the page loaded
    handler,        \* the UI handler that ran last, and how its try block ended
    selectedSymbol, \* useAppStore.selectedSymbol
    recentSearches, \* useAppStore.recentSearches
    chatMessages,   \* useAppStore.chatMessages
    isTyping,       \* isTyping of the mounted AgentPanel
    input,          \* input of the mounted AgentPanel
    panel,          \* number of AgentPanel mounts so far: the mounted one
    sending,        \* sendMessage calls in flight
    query,          \* query of TickerSearch
    results,        \* results of TickerSearch
    searchTimeout,  \* searchTimeoutRef: the query the pending timer will search
    searching,      \* searchTickers calls in flight
    searches,       \* number of searchTickers calls so far
    loading         \* loading of TickerSearch

selectionVars == <<handler, selectedSymbol, recentSearches>>
chatVars == <<chatMessages, isTyping, input, panel, sending>>
searchVars == <<query, results, searchTimeout, searching, searches, loading>>
pageVars == <<selectionVars, chatVars, searchVars>>

vars == <<stored, clock, call, ret, mounted, symbols, queries, watchlist,
          generation, mutationStatus, lastPublished, publishedGens, reloads, batches,
          pageVars>>

storeVars == <<stored, clock>>
syncVars == <<mounted, symbols, queries, watchlist, generation,
              mutationStatus, lastPublished, publishedGens, reloads, batches>>

-----------------------------------------------------------------------------
(* Bounds *)

MaxClock == 3
MaxGen == 2
MaxReloads == 1
MaxBatches == 2

-----------------------------------------------------------------------------
(* Inputs *)

\* Ticker spellings a caller may pass.
Spellings == {"aapl", "AAPL", "MSFT", "NVDA"}

\* Display names a caller may pass next to the ticker.
Names == {"Corp"}

toUpperCase(s) ==
    CASE s = "aapl" -> "AAPL"
      [] OTHER -> s

Range(seq) == {seq[i] : i \in 1..Len(seq)}

-----------------------------------------------------------------------------
(* Symbol Store: WatchlistManager *)

getStocks == stored

getSymbolsOf(stocks) == [i \in 1..Len(stocks) |-> stocks[i].symbol]

getSymbols == getSymbolsOf(getStocks)

hasStockIn(stocks, symbol) ==
    \E i \in 1..Len(stocks) : stocks[i].symbol = toUpperCase(symbol)

hasStock(symbol) == hasStockIn(getStocks, symbol)

\* addStock that looks for the symbol as it was typed.
addStockOn_RawLookup(stocks, symbol, name, now, writeOk) ==
    LET upperSymbol == toUpperCase(symbol)
        newStock == [symbol |-> upperSymbol, name |-> name, addedAt |-> now]
    IN  IF \E i \in 1..Len(stocks) : stocks[i].symbol = symbol
        THEN [stocks |-> stocks, ret |-> "false", write |-> "none"]
        ELSE IF writeOk
             THEN [stocks |-> Append(stocks, newStock), ret |-> "true",
                   write |-> "ok"]
             ELSE [stocks |-> stocks, ret |-> "false", write |-> "failed"]

\* addStock that stores the symbol as it was typed.
addStockOn_RawSymbol(stocks, symbol, name, now, writeOk) ==
    LET upperSymbol == toUpperCase(symbol)
        newStock == [symbol |-> symbol, name |-> name, addedAt |-> now]
    IN  IF \E i \in 1..Len(stocks) : stocks[i].symbol = upperSymbol
        THEN [stocks |-> stocks, ret |-> "false", write |-> "none"]
        ELSE IF writeOk
             THEN [stocks |-> Append(stocks, newStock), ret |-> "true",
                   write |-> "ok"]
             ELSE [stocks |-> stocks, ret |-> "false", write |-> "failed"]

\* addStock whose catch block is missing the 'return false'.
addStockOn_SwallowedThrow(stocks, symbol, name, now, writeOk) ==
    LET upperSymbol == toUpperCase(symbol)
        newStock == [symbol |-> upperSymbol, name |-> name, addedAt |-> now]
    IN  IF \E i \in 1..Len(stocks) : stocks[i].symbol = upperSymbol
        THEN [stocks |-> stocks, ret |-> "false", write |-> "none"]
        ELSE IF writeOk
             THEN [stocks |-> Append(stocks, newStock), ret |-> "true",
                   write |-> "ok"]
             ELSE [stocks |-> stocks, ret |-> "true", write |-> "failed"]

\* addStock that puts the new record first.
addStockOn_Prepend(stocks, symbol, name, now, writeOk) ==
    LET upperSymbol == toUpperCase(symbol)
        newStock == [symbol |-> upperSymbol, name |-> name, addedAt |-> now]
    IN  IF \E i \in 1..Len(stocks) : stocks[i].symbol = upperSymbol
        THEN [stocks |-> stocks, ret |-> "false", write |-> "none"]
        ELSE IF writeOk
             THEN [stocks |-> <<newStock>> \o stocks, ret |-> "true",
                   write |-> "ok"]
             ELSE [stocks |-> stocks, ret |-> "false", write |-> "failed"]

\* addStock on the list 'stocks': the list that is in storage afterwards,
\* the value returned, and what became of the write ("none" if setItem was
\* not reached).  writeOk = FALSE is localStorage.setItem throwing, which the
\* catch block turns into 'return false'.
addStockOn(stocks, symbol, name, now, writeOk) ==
    LET upperSymbol == toUpperCase(symbol)
        newStock == [symbol |-> upperSymbol, name |-> name, addedAt |-> now]
    IN  IF \E i \in 1..Len(stocks) : stocks[i].symbol = upperSymbol
        THEN [stocks |-> stocks, ret |-> "false", write |-> "none"]
        ELSE IF writeOk
             THEN [stocks |-> Append(stocks, newStock), ret |-> "true",
                   write |-> "ok"]
             ELSE [stocks |-> stocks, ret |-> "false", write |-> "failed"]

\* removeStock that filters on the symbol as it was typed.
removeStockOn_RawSymbol(stocks, symbol, writeOk) ==
    LET keep(stock) == stock.symbol # symbol
        filtered == SelectSeq(stocks, keep)
    IN  IF Len(filtered) = Len(stocks)
        THEN [stocks |-> stocks, ret |-> "false", write |-> "none"]
        ELSE IF writeOk
             THEN [stocks |-> filtered, ret |-> "true", write |-> "ok"]
             ELSE [stocks |-> stocks, ret |-> "false", write |-> "failed"]

\* removeStock without the 'not found' return.
removeStockOn_NoFoundCheck(stocks, symbol, writeOk) ==
    LET upperSymbol == toUpperCase(symbol)
        keep(stock) == stock.symbol # upperSymbol
        filtered == SelectSeq(stocks, keep)
    IN  IF writeOk
        THEN [stocks |-> filtered, ret |-> "true", write |-> "ok"]
        ELSE [stocks |-> stocks, ret |-> "false", write |-> "failed"]

\* removeStock whose catch block is missing the 'return false'.
removeStockOn_SwallowedThrow(stocks, symbol, writeOk) ==
    LET upperSymbol == toUpperCase(symbol)
        keep(stock) == stock.symbol # upperSymbol
        filtered == SelectSeq(stocks, keep)
    IN  IF Len(filtered) = Len(stocks)
        THEN [stocks |-> stocks, ret |-> "false", write |-> "none"]
        ELSE IF writeOk
             THEN [stocks |-> filtered, ret |-> "true", write |-> "ok"]
             ELSE [stocks |-> stocks, ret |-> "true", write |-> "failed"]

removeStockOn(stocks, symbol, writeOk) ==
    LET upperSymbol == toUpperCase(symbol)
        keep(stock) == stock.symbol # upperSymbol
        filtered == SelectSeq(stocks, keep)
    IN  IF Len(filtered) = Len(stocks)
        THEN [stocks |-> stocks, ret |-> "false", write |-> "none"]
        ELSE IF writeOk
             THEN [stocks |-> filtered, ret |-> "true", write |-> "ok"]
             ELSE [stocks |-> stocks, ret |-> "false", write |-> "failed"]

clearOn(stocks, writeOk) == IF writeOk THEN <<>> ELSE stocks

\* initializeDefaults that seeds MSFT before AAPL.
initializeDefaultsOn_Reordered(stocks, now, w) ==
    IF Len(stocks) = 0
    THEN LET s1 == addStockOn(stocks, "MSFT", "Microsoft Corporation", now, w[1]).stocks
             s2 == addStockOn(s1, "AAPL", "Apple Inc.", now, w[2]).stocks
         IN  addStockOn(s2, "NVDA", "NVIDIA Corporation", now, w[3]).stocks
    ELSE stocks

\* initializeDefaults without the test for an empty list.
initializeDefaultsOn_NoEmptyCheck(stocks, now, w) ==
    LET s1 == addStockOn(stocks, "AAPL", "Apple Inc.", now, w[1]).stocks
        s2 == addStockOn(s1, "MSFT", "Microsoft Corporation", now, w[2]).stocks
    IN  addStockOn(s2, "NVDA", "NVIDIA Corporation", now, w[3]).stocks

\* initializeDefaults: three addStock calls when the list is empty; w[i] says
\* whether the i-th write succeeds.
initializeDefaultsOn(stocks, now, w) ==
    IF Len(stocks) = 0
    THEN LET s1 == addStockOn(stocks, "AAPL", "Apple Inc.", now, w[1]).stocks
             s2 == addStockOn(s1, "MSFT", "Microsoft Corporation", now, w[2]).stocks
         IN  addStockOn(s2, "NVDA", "NVIDIA Corporation", now, w[3]).stocks
    ELSE stocks

\* Outcomes of the three writes of initializeDefaults that are tried.
Writes3 == { <<TRUE, TRUE, TRUE>>, <<TRUE, FALSE, FALSE>>, <<FALSE, FALSE, FALSE>> }

Call(op, symbol, name, write) ==
    [op |-> op, symbol |-> symbol, name |-> name, write |-> write]

-----------------------------------------------------------------------------
(* The store's operations called directly *)

addStock(symbol, name, writeOk) ==
    /\ clock < MaxClock
    /\ LET r == addStockOn(getStocks, symbol, name, clock, writeOk)
       IN  /\ stored' = r.stocks
           /\ ret' = r.ret
           /\ call' = Call("addStock", symbol, name, r.write)
    /\ clock' = clock + 1
    /\ UNCHANGED <<syncVars, pageVars>>

removeStock(symbol, writeOk) ==
    /\ LET r == removeStockOn(getStocks, symbol, writeOk)
       IN  /\ stored' = r.stocks
           /\ ret' = r.ret
           /\ call' = Call("removeStock", symbol, "", r.write)
    /\ UNCHANGED <<clock, syncVars, pageVars>>

clear(writeOk) ==
    /\ stored' = clearOn(getStocks, writeOk)
    /\ ret' = "void"
    /\ call' = Call("clear", "", "", IF writeOk THEN "ok" ELSE "failed")
    /\ UNCHANGED <<clock, syncVars, pageVars>>

initializeDefaults(w) ==
    /\ clock < MaxClock
    /\ stored' = initializeDefaultsOn(getStocks, clock, w)
    /\ clock' = clock + 1
    /\ ret' = "void"
    /\ call' = Call("initializeDefaults", "", "", "none")
    /\ UNCHANGED <<syncVars, pageVars>>

-----------------------------------------------------------------------------

(* Market Data Gateway: api.getSnapshot -> /api/yahoo/quote *)

\* What yahooFinance.quote gives the route: ok = FALSE is a throw or an
\* invalid quote; a field that is absent is 0 or "".
Quotes ==
    { [ok |-> TRUE, regularMarketPrice |-> 120, regularMarketChange |-> 3,
       regularMarketChangePercent |-> 2, longName |-> "Long Name"],
      [ok |-> TRUE, regularMarketPrice |-> 120, regularMarketChange |-> 0,
       regularMarketChangePercent |-> 0, longName |-> ""],
      [ok |-> TRUE, regularMarketPrice |-> 0, regularMarketChange |-> 0,
       regularMarketChangePercent |-> 0, longName |-> ""],
      [ok |-> FALSE, regularMarketPrice |-> 0, regularMarketChange |-> 0,
       regularMarketChangePercent |-> 0, longName |-> ""] }

\* The quotes the batches of the hook are run against.
BatchQuotes == {quote \in Quotes : quote.regularMarketChange # 0 \/ ~quote.ok}

\* 100 + Math.random() * 50
RandomPrices == {100, 140}

\* (Math.random() - 0.5) * 10
RandomChanges == {-4, 4}

\* The draw of Math.random the batches of the hook are run with, as the
\* price and the change it gives.
BatchRandoms == { [price |-> 100, change |-> -4] }

\* Two draws of Math.random, as the price and the change they give.
Randoms == { [price |-> 100, change |-> -4], [price |-> 140, change |-> 4] }

\* a || b on numbers and on strings
OrNum(a, b) == IF a = 0 THEN b ELSE a

OrStr(a, b) == IF a = "" THEN b ELSE a

\* The body the quote route answers with; status 500 carries no results.
quoteRoute(symbol, quote) ==
    IF quote.ok
    THEN [status |-> 200,
          results |-> << [ticker |-> toUpperCase(symbol),
                          todaysChangePerc |-> OrNum(quote.regularMarketChangePercent, 0),
                          todaysChange |-> OrNum(quote.regularMarketChange, 0),
                          fmv |-> OrNum(quote.regularMarketPrice, 0),
                          value |-> OrNum(quote.regularMarketPrice, 0),
                          last_quote |-> [c |-> OrNum(quote.regularMarketPrice, 0)],
                          name |-> OrStr(quote.longName, symbol)] >>]
    ELSE [status |-> 500, results |-> <<>>]

\* getSnapshot: the response body, or a throw when the response is not ok.
getSnapshot(symbol, quote) ==
    LET response == quoteRoute(symbol, quote)
    IN  [threw |-> response.status # 200, results |-> response.results]

mockItem(symbol, rndPrice, rndChange) ==
    [symbol |-> toUpperCase(symbol),
     name |-> symbol \o " Inc.",
     price |-> rndPrice,
     change |-> rndChange,
     changePercent |-> (rndChange * 100) \div rndPrice]

\* The per-symbol body of the 'watchlist-data' queryFn.
watchlistItem(symbol, snapshot, rndPrice, rndChange) ==
    IF snapshot.threw
    THEN mockItem(symbol, rndPrice, rndChange)
    ELSE IF Len(snapshot.results) > 0
         THEN LET result == snapshot.results[1]
                  price == OrNum(result.last_quote.c,
                                 OrNum(result.fmv, OrNum(result.value, rndPrice)))
                  change == OrNum(result.todaysChange, rndChange)
                  changePercent == OrNum(result.todaysChangePerc,
                                         (change * 100) \div price)
              IN  [symbol |-> OrStr(result.ticker, toUpperCase(symbol)),
                   name |-> OrStr(result.name, symbol \o " Inc."),
                   price |-> price,
                   change |-> change,
                   changePercent |-> changePercent]
         ELSE mockItem(symbol, rndPrice, rndChange)

-----------------------------------------------------------------------------
(* The 'watchlist-data' query cache *)

NoPublish == [gen |-> -1, overtaken |-> {}, prior |-> {}, failed |-> {}]

PendingItem ==
    [symbol |-> "", name |-> "", price |-> 0, change |-> 0, changePercent |-> 0]

\* A query nobody has fetched yet.  batchGen, overtaken and failed describe
\* the batch in flight; dataGen, dataOvertaken and dataFailed the batch whose
\* result is the cached data.
NewQuery ==
    [hasData |-> FALSE, data |-> <<>>, fetching |-> FALSE,
     results |-> <<>>, resolved |-> {},
     batchGen |-> -1, overtaken |-> {}, failed |-> {},
     dataGen |-> -1, dataOvertaken |-> {}, dataFailed |-> {}]

\* A batch for 'key' starts while the generation is g; every older batch
\* still in flight has now been overtaken by generation g.
StartBatch(q, key, g) ==
    LET base == IF key \in DOMAIN q THEN q[key] ELSE NewQuery
        started == [base EXCEPT !.fetching = TRUE,
                                !.results = [i \in 1..Len(key) |-> PendingItem],
                                !.resolved = {},
                                !.batchGen = g,
                                !.overtaken = {},
                                !.failed = {}]
    IN  [k \in DOMAIN q \cup {key} |->
            IF k = key THEN started
            ELSE IF q[k].fetching /\ q[k].batchGen < g
                 THEN [q[k] EXCEPT !.overtaken = @ \cup {g}]
                 ELSE q[k]]

IsFetching(q, key) == key \in DOMAIN q /\ q[key].fetching

\* query.fetch that starts a new fetch while one is in flight.
Fetch_NoJoin(q, key, g) ==
    StartBatch(q, key, g)

\* query.fetch: a fetch already in flight for the key is joined.
Fetch(q, key, g) ==
    IF IsFetching(q, key) THEN q ELSE StartBatch(q, key, g)

\* The effect 'if (stocksData) setWatchlist(stocksData)'.
Publish(entry) ==
    /\ watchlist' = entry.data
    /\ lastPublished' = [gen |-> entry.dataGen,
                         overtaken |-> entry.dataOvertaken,
                         prior |-> publishedGens,
                         failed |-> entry.dataFailed]
    /\ publishedGens' = publishedGens \cup {entry.dataGen}

\* The hook renders with the symbol list 'key' while the generation is g:
\* the data query is enabled for a non-empty key only; cached data of the key
\* is published at once and, being stale, refetched.
Observe(key, g) ==
    IF Len(key) > 0
    THEN /\ queries' = Fetch(queries, key, g)
         /\ batches' = IF IsFetching(queries, key) THEN batches ELSE batches + 1
         /\ batches' <= MaxBatches
         /\ IF key \in DOMAIN queries /\ queries[key].hasData
            THEN Publish(queries[key])
            ELSE UNCHANGED <<watchlist, lastPublished, publishedGens>>
    ELSE UNCHANGED <<queries, watchlist, lastPublished, publishedGens, batches>>

-----------------------------------------------------------------------------
(* The useWatchlist hook *)

\* A component that uses the hook mounts: initializeDefaults, then the
\* symbols query reads the store and the data query is observed.
Mount(w) ==
    /\ Len(stored) = 0 => clock < MaxClock
    /\ stored' = initializeDefaultsOn(getStocks, clock, w)
    /\ clock' = IF Len(stored) = 0 THEN clock + 1 ELSE clock
    /\ mounted' = TRUE
    /\ symbols' = getSymbolsOf(stored')
    /\ Observe(symbols', generation)
    /\ ret' = "void"
    /\ call' = Call("mount", "", "", "none")
    /\ UNCHANGED <<generation, mutationStatus, reloads, pageVars>>

\* onSuccess of a mutation: invalidateQueries(['watchlist-symbols']).
Invalidate ==
    /\ generation' = generation + 1
    /\ symbols' = getSymbolsOf(stored')
    /\ Observe(symbols', generation')

addMutation(symbol, name, writeOk) ==
    /\ mounted
    /\ clock < MaxClock
    /\ generation < MaxGen
    /\ LET r == addStockOn(getStocks, symbol, name, clock, writeOk)
       IN  /\ stored' = r.stocks
           /\ ret' = r.ret
           /\ call' = Call("addMutation", "", "", r.write)
    /\ clock' = clock + 1
    /\ IF ret' = "true"
       THEN /\ mutationStatus' = "success"
            /\ Invalidate
       ELSE /\ mutationStatus' = "error"
            /\ UNCHANGED <<generation, symbols, queries, watchlist,
                           lastPublished, publishedGens, batches>>
    /\ UNCHANGED <<mounted, reloads>>

removeMutation(symbol, writeOk) ==
    /\ mounted
    /\ generation < MaxGen
    /\ LET r == removeStockOn(getStocks, symbol, writeOk)
       IN  /\ stored' = r.stocks
           /\ ret' = r.ret
           /\ call' = Call("removeMutation", "", "", r.write)
    /\ IF ret' = "true"
       THEN /\ mutationStatus' = "success"
            /\ Invalidate
       ELSE /\ mutationStatus' = "error"
            /\ UNCHANGED <<generation, symbols, queries, watchlist,
                           lastPublished, publishedGens, batches>>
    /\ UNCHANGED <<clock, mounted, reloads>>

\* refetchInterval: 60000 on the data query, which is enabled for a non-empty
\* symbol list only.
refetchInterval ==
    /\ mounted
    /\ Len(symbols) > 0
    /\ queries' = Fetch(queries, symbols, generation)
    /\ batches' = IF IsFetching(queries, symbols) THEN batches ELSE batches + 1
    /\ batches' <= MaxBatches
    /\ ret' = "void"
    /\ call' = Call("refetchInterval", "", "", "none")
    /\ UNCHANGED <<storeVars, mounted, symbols, watchlist, generation,
                   mutationStatus, lastPublished, publishedGens, reloads,
                   pageVars>>

\* Respond that hands the results to the query with the first response.
Respond_FirstCompleted(key, i, quote, rndPrice, rndChange) ==
    /\ key \in DOMAIN queries
    /\ queries[key].fetching
    /\ i \in 1..Len(key)
    /\ i \notin queries[key].resolved
    /\ LET snapshot == getSnapshot(key[i], quote)
           item == watchlistItem(key[i], snapshot, rndPrice, rndChange)
           e1 == [queries[key] EXCEPT
                    !.results[i] = item,
                    !.resolved = @ \cup {i},
                    !.failed = IF snapshot.threw THEN @ \cup {key[i]} ELSE @]
           settled == e1.resolved = 1..Len(key)
           e2 == [e1 EXCEPT !.fetching = ~settled,
                            !.hasData = TRUE,
                            !.data = e1.results,
                            !.dataGen = e1.batchGen,
                            !.dataOvertaken = e1.overtaken,
                            !.dataFailed = e1.failed]
       IN  /\ queries' = [queries EXCEPT ![key] = e2]
           /\ IF mounted /\ symbols = key
              THEN Publish(e2)
              ELSE UNCHANGED <<watchlist, lastPublished, publishedGens>>
    /\ ret' = "void"
    /\ call' = Call("respond", "", "", "none")
    /\ UNCHANGED <<storeVars, mounted, symbols, generation, mutationStatus,
                   reloads, batches, pageVars>>

\* Respond that lists the results in the order the responses arrive.
Respond_ArrivalOrder(key, i, quote, rndPrice, rndChange) ==
    /\ key \in DOMAIN queries
    /\ queries[key].fetching
    /\ i \in 1..Len(key)
    /\ i \notin queries[key].resolved
    /\ LET snapshot == getSnapshot(key[i], quote)
           item == watchlistItem(key[i], snapshot, rndPrice, rndChange)
           arrival == Cardinality(queries[key].resolved) + 1
           e1 == [queries[key] EXCEPT
                    !.results[arrival] = item,
                    !.resolved = @ \cup {i},
                    !.failed = IF snapshot.threw THEN @ \cup {key[i]} ELSE @]
           settled == e1.resolved = 1..Len(key)
           e2 == IF settled
                 THEN [e1 EXCEPT !.fetching = FALSE,
                                 !.hasData = TRUE,
                                 !.data = e1.results,
                                 !.dataGen = e1.batchGen,
                                 !.dataOvertaken = e1.overtaken,
                                 !.dataFailed = e1.failed]
                 ELSE e1
       IN  /\ queries' = [queries EXCEPT ![key] = e2]
           /\ IF settled /\ mounted /\ symbols = key
              THEN Publish(e2)
              ELSE UNCHANGED <<watchlist, lastPublished, publishedGens>>
    /\ ret' = "void"
    /\ call' = Call("respond", "", "", "none")
    /\ UNCHANGED <<storeVars, mounted, symbols, generation, mutationStatus,
                   reloads, batches, pageVars>>

\* The quote request for key[i] of the batch in flight for 'key' comes back.
\* With the last one Promise.all resolves: the results become the query's
\* data and, if the hook still observes this key, the effect publishes them.
Respond(key, i, quote, rndPrice, rndChange) ==
    /\ key \in DOMAIN queries
    /\ queries[key].fetching
    /\ i \in 1..Len(key)
    /\ i \notin queries[key].resolved
    /\ LET snapshot == getSnapshot(key[i], quote)
           item == watchlistItem(key[i], snapshot, rndPrice, rndChange)
           e1 == [queries[key] EXCEPT
                    !.results[i] = item,
                    !.resolved = @ \cup {i},
                    !.failed = IF snapshot.threw THEN @ \cup {key[i]} ELSE @]
           settled == e1.resolved = 1..Len(key)
           e2 == IF settled
                 THEN [e1 EXCEPT !.fetching = FALSE,
                                 !.hasData = TRUE,
                                 !.data = e1.results,
                                 !.dataGen = e1.batchGen,
                                 !.dataOvertaken = e1.overtaken,
                                 !.dataFailed = e1.failed]
                 ELSE e1
       IN  /\ queries' = [queries EXCEPT ![key] = e2]
           /\ IF settled /\ mounted /\ symbols = key
              THEN Publish(e2)
              ELSE UNCHANGED <<watchlist, lastPublished, publishedGens>>
    /\ ret' = "void"
    /\ call' = Call("respond", "", "", "none")
    /\ UNCHANGED <<storeVars, mounted, symbols, generation, mutationStatus,
                   reloads, batches, pageVars>>

-----------------------------------------------------------------------------
(* State of the page outside the hook, as it is when the page has loaded *)

\* No UI handler has run yet.
NoHandler ==
    [op |-> "none", symbol |-> "", saw |-> "void", selected |-> "", entries |-> 0]

\* The message chatMessages starts with.
WelcomeMessage == [role |-> "assistant", content |-> "welcome", answers |-> 0]

\* searchTimeoutRef holds no timer.
NoTimeout == "none"

InitialRecentSearches == <<"AAPL", "MSFT", "NVDA">>

\* Component state and the parts of useAppStore that persist leaves out.
FreshPage ==
    /\ handler' = NoHandler
    /\ chatMessages' = <<WelcomeMessage>>
    /\ isTyping' = FALSE
    /\ input' = ""
    /\ panel' = 1
    /\ sending' = {}
    /\ query' = ""
    /\ results' = <<>>
    /\ searchTimeout' = NoTimeout
    /\ searching' = {}
    /\ searches' = 0
    /\ loading' = FALSE

\* The page is reloaded: the query cache, the hook's state and the state of
\* the components are gone; localStorage (the store, and what useAppStore
\* persists: the view, the selection, the recent searches) stays.
Reload ==
    /\ reloads < MaxReloads
    /\ reloads' = reloads + 1
    /\ mounted' = FALSE
    /\ symbols' = <<>>
    /\ queries' = [k \in {} |-> NewQuery]
    /\ generation' = 0
    /\ mutationStatus' = "idle"
    /\ lastPublished' = NoPublish
    /\ publishedGens' = {}
    /\ batches' = 0
    /\ ret' = "void"
    /\ call' = Call("reload", "", "", "none")
    /\ FreshPage
    /\ UNCHANGED <<storeVars, watchlist, selectedSymbol, recentSearches>>

-----------------------------------------------------------------------------

NoCall == Call("none", "", "", "none")



Init ==
    /\ stored = <<>>
    /\ clock = 0
    /\ call = NoCall
    /\ ret = "void"
    /\ mounted = FALSE
    /\ symbols = <<>>
    /\ queries = [k \in {} |-> NewQuery]
    /\ watchlist = <<>>
    /\ generation = 0
    /\ mutationStatus = "idle"
    /\ lastPublished = NoPublish
    /\ publishedGens = {}
    /\ reloads = 0
    /\ batches = 0
    /\ handler = NoHandler
    /\ selectedSymbol = "AAPL"
    /\ recentSearches = InitialRecentSearches
    /\ chatMessages = <<WelcomeMessage>>
    /\ isTyping = FALSE
    /\ input = ""
    /\ panel = 1
    /\ sending = {}
    /\ query = ""
    /\ results = <<>>
    /\ searchTimeout = NoTimeout
    /\ searching = {}
    /\ searches = 0
    /\ loading = FALSE

StoreNext ==
    \/ \E s \in Spellings, n \in Names, ok \in BOOLEAN : addStock(s, n, ok)
    \/ \E s \in Spellings, ok \in BOOLEAN : removeStock(s, ok)
    \/ \E ok \in BOOLEAN : clear(ok)
    \/ \E w \in Writes3 : initializeDefaults(w)
    \/ Reload

StoreSpec == Init /\ [][StoreNext]_vars

Next ==
    \/ \E w \in Writes3 : Mount(w)
    \/ \E s \in Spellings, n \in Names, ok \in BOOLEAN :
          addMutation(s, n, ok) /\ UNCHANGED pageVars
    \/ \E s \in Spellings, ok \in BOOLEAN :
          removeMutation(s, ok) /\ UNCHANGED pageVars
    \/ refetchInterval
    \/ \E key \in DOMAIN queries, i \in 1..3, quote \in BatchQuotes,
          rnd \in BatchRandoms :
            Respond(key, i, quote, rnd.price, rnd.change)

Spec == Init /\ [][Next]_vars

\* The watchlist shown and refreshed, with no symbol added or removed; every
\* mock value is a draw of its own.
RefreshNext ==
    \/ \E w \in Writes3 : Mount(w)
    \/ refetchInterval
    \/ \E key \in DOMAIN queries, i \in 1..3, quote \in BatchQuotes,
          rnd \in Randoms :
            Respond(key, i, quote, rnd.price, rnd.change)

RefreshSpec == Init /\ [][RefreshNext]_vars

\* What the event loop guarantees: a loaded page mounts the hook and the
\* 60-second timer of the data query fires.  Nothing bounds the time the
\* quote request takes (makeRequest awaits fetch without a timeout or an
\* abort signal), so no response is guaranteed.
FairSpec ==
    /\ Spec
    /\ WF_vars(\E w \in Writes3 : Mount(w))
    /\ WF_vars(refetchInterval)

\* FairSpec with a gateway that answers every request in the end.
ResponsiveSpec ==
    /\ FairSpec
    /\ WF_vars(\E key \in DOMAIN queries, i \in 1..3, quote \in BatchQuotes,
                  rnd \in BatchRandoms :
                    Respond(key, i, quote, rnd.price, rnd.change))

\* The page loads and mounts the hook once (further components that use the
\* hook may mount, none has to), the timer fires, and the gateway answers
\* every request in the end.
LoadedSpec ==
    /\ Spec
    /\ WF_vars(~mounted /\ \E w \in Writes3 : Mount(w))
    /\ WF_vars(refetchInterval)
    /\ WF_vars(\E key \in DOMAIN queries, i \in 1..3, quote \in BatchQuotes,
                  rnd \in BatchRandoms :
                    Respond(key, i, quote, rnd.price, rnd.change))

-----------------------------------------------------------------------------
(* Vocabulary of the claims *)

Tickers == {toUpperCase(s) : s \in Spellings}

\* The spellings the store takes for the same symbol as s.
SameSymbol(s) == {t \in Spellings : toUpperCase(t) = toUpperCase(s)}

ViewSymbols == {watchlist[i].symbol : i \in 1..Len(watchlist)}

InView(t) == t \in ViewSymbols

InStore(t) == t \in Range(getSymbols)

\* No request of the cycle for the current symbol list is outstanding.
CycleSettled == mounted /\ ~IsFetching(queries, symbols)

\* The entry says that its data is not fresh.
IsMarkedDegraded(entry) ==
    /\ "dataState" \in DOMAIN entry
    /\ entry.dataState \in {"Failed", "Fallback"}

-----------------------------------------------------------------------------
(* C1: once the cycle for the current symbol list has no request            *)
(* outstanding, the published view has exactly the symbols the store had    *)
(* when the cycle was triggered (the list the symbols query read then):     *)
(* same size, same members, the empty list included.                        *)
C1_ViewEqualsStoreAtTrigger ==
    CycleSettled =>
        /\ Len(watchlist) = Len(symbols)
        /\ ViewSymbols = Range(symbols)

(* C2: every symbol whose quote request failed in the batch that was        *)
(* published has an entry in the view with a price, a name and a dataState  *)
(* of Failed or Fallback.                                                   *)
C2_FailedEntryMarkedDegraded ==
    \A t \in lastPublished.failed :
        \E i \in 1..Len(watchlist) :
            /\ watchlist[i].symbol = t
            /\ watchlist[i].price # 0
            /\ watchlist[i].name # ""
            /\ IsMarkedDegraded(watchlist[i])

(* C3: the view never shows the result of a batch of generation N that was  *)
(* still in flight when a batch of generation N+1 started, once the result  *)
(* of generation N+1 has been published.                                    *)
C3_LastGenerationWins ==
    ~ /\ lastPublished.gen + 1 \in lastPublished.overtaken
      /\ lastPublished.gen + 1 \in lastPublished.prior

-----------------------------------------------------------------------------
(* Symbol Store contract *)

\* At most one entry per symbol, every stored symbol in upper case.
StoreWellFormed ==
    /\ \A i, j \in 1..Len(stored) :
           stored[i].symbol = stored[j].symbol => i = j
    /\ \A i \in 1..Len(stored) :
           stored[i].symbol = toUpperCase(stored[i].symbol)

Occurrences(stocks, t) ==
    Cardinality({i \in 1..Len(stocks) : stocks[i].symbol = t})

\* The list removeStock(symbol) is to leave behind.
Without(stocks, symbol) ==
    LET other(stock) == stock.symbol # toUpperCase(symbol)
    IN  SelectSeq(stocks, other)

(* C4: after any sequence of add, remove, clear and initializeDefaults      *)
(* calls the list holds no symbol twice and only upper-case symbols; a      *)
(* symbol that add has just added is in the list exactly once, and an add   *)
(* of a symbol that is already there leaves the list as it is.              *)
C4_UniqueUppercase ==
    /\ []StoreWellFormed
    /\ [][ /\ (call'.op = "addStock" /\ ret' = "true") =>
                Occurrences(stored', toUpperCase(call'.symbol)) = 1
           /\ (call'.op = "addStock" /\ hasStock(call'.symbol)) =>
                stored' = stored ]_vars

C4_Witness ==
    /\ call.op = "addStock"
    /\ call.symbol = "aapl"
    /\ call.write = "none"
    /\ Len(stored) = 2
    /\ stored[1].symbol = "AAPL"

(* C5, as claimed: add of a symbol that is already watched, in any letter   *)
(* case, returns false and leaves the list unchanged; after add of a symbol *)
(* that was not watched, has() is true for it in every letter case.         *)
C5_AddTwice ==
    [][ call'.op = "addStock" =>
          IF hasStock(call'.symbol)
          THEN ret' = "false" /\ stored' = stored
          ELSE \A t \in SameSymbol(call'.symbol) : hasStockIn(stored', t) ]_vars

(* C5, amended: add of a symbol that is already watched, in any letter      *)
(* case, returns false and leaves the list unchanged; add of a symbol that  *)
(* was not watched returns true and has() is then true for it in every      *)
(* letter case, unless the write failed: then add returns false and the     *)
(* list is unchanged.                                                       *)
C5_AddTwiceAmended ==
    [][ call'.op = "addStock" =>
          IF hasStock(call'.symbol) \/ call'.write = "failed"
          THEN ret' = "false" /\ stored' = stored
          ELSE /\ ret' = "true"
               /\ Len(stored') = Len(stored) + 1
               /\ \A t \in SameSymbol(call'.symbol) : hasStockIn(stored', t) ]_vars

C5_Witness ==
    /\ call.op = "addStock"
    /\ call.symbol = "aapl"
    /\ ret = "true"
    /\ hasStock("AAPL")

(* C6, as claimed: removeStock(s) of a watched symbol returns true, has(s)  *)
(* is false afterwards in every letter case and the generation is greater   *)
(* than before.                                                             *)
C6_RemoveWatched ==
    [][ \A s \in Spellings, ok \in BOOLEAN :
          (removeMutation(s, ok) /\ hasStock(s)) =>
              /\ ret' = "true"
              /\ \A t \in SameSymbol(s) : ~hasStockIn(stored', t)
              /\ generation' > generation ]_vars

(* C6, amended: removeStock(s) of a watched symbol returns true unless the  *)
(* write fails; whenever it returns true, has(s) is false afterwards in     *)
(* every letter case and the generation is greater than before.             *)
C6_RemoveWatchedAmended ==
    [][ \A s \in Spellings, ok \in BOOLEAN :
          (removeMutation(s, ok) /\ hasStock(s)) =>
              /\ ret' = "true" <=> ok
              /\ ret' = "true" =>
                    /\ \A t \in SameSymbol(s) : ~hasStockIn(stored', t)
                    /\ generation' > generation ]_vars

C6_Witness ==
    /\ call.op = "removeMutation"
    /\ ret = "true"
    /\ generation > 0
    /\ Len(stored) > 0

(* C7: remove of a symbol that is not watched returns false and leaves the  *)
(* stored list as it is.                                                    *)
C7_RemoveNotWatched ==
    [][ (call'.op = "removeStock" /\ ~hasStock(call'.symbol)) =>
            (ret' = "false" /\ stored' = stored) ]_vars

C7_Witness ==
    /\ call.op = "removeStock"
    /\ call.write = "none"
    /\ ret = "false"
    /\ Len(stored) > 0

(* C8: whenever add or remove returns true, storage holds the updated list  *)
(* (the old list with the new record appended, or without the symbol), and  *)
(* a reload leaves that list in storage.                                    *)
C8_PersistedBeforeReturn ==
    [][ /\ (call'.op = "addStock" /\ ret' = "true") =>
              stored' = Append(stored, [symbol |-> toUpperCase(call'.symbol),
                                        name |-> call'.name,
                                        addedAt |-> clock])
        /\ (call'.op = "removeStock" /\ ret' = "true") =>
              /\ stored' = Without(stored, call'.symbol)
              /\ stored' # stored
        /\ call'.op = "reload" => stored' = stored ]_vars

C8_Witness ==
    /\ call.op = "reload"
    /\ Len(stored) = 2
    /\ stored[2].addedAt > stored[1].addedAt

(* C9: when the write of an add or a remove fails, the mutation ends in     *)
(* error, the stored list is unchanged, the generation is not raised and no *)
(* fetch is started.                                                        *)
C9_WriteFailurePropagates ==
    [][ \A s \in Spellings :
          /\ \A n \in Names :
                (addMutation(s, n, FALSE) /\ ~hasStock(s)) =>
                    /\ ret' = "false"
                    /\ mutationStatus' = "error"
                    /\ UNCHANGED <<stored, generation, symbols, queries,
                                   watchlist, batches>>
          /\ (removeMutation(s, FALSE) /\ hasStock(s)) =>
                /\ ret' = "false"
                /\ mutationStatus' = "error"
                /\ UNCHANGED <<stored, generation, symbols, queries,
                               watchlist, batches>> ]_vars

C9_Witness ==
    /\ call.op = "removeMutation"
    /\ call.write = "failed"
    /\ mutationStatus = "error"
    /\ Len(stored) > 0

(* C10: every symbol that is in the store and stays there is eventually in *)
(* the published view.                                                      *)
C10_WatchedEventuallyInView ==
    \A t \in Tickers : InStore(t) ~> (InView(t) \/ ~InStore(t))

-----------------------------------------------------------------------------
(* C11: a symbol that is not in the store, and is not added again, is       *)
(* eventually not in the published view; this includes the last symbol of   *)
(* the store, after whose removal the view becomes empty.                   *)
C11_RemovedEventuallyLeavesView ==
    \A t \in Tickers : ~InStore(t) ~> (~InView(t) \/ InStore(t))

(* C12: a failing quote request does not block the batch: the published    *)
(* view has one entry per symbol of the list it was fetched for, the entry  *)
(* of a symbol whose request succeeded is Fresh and carries the price of    *)
(* its response, and the entry of a symbol whose request failed is Failed   *)
(* or Fallback with a price.                                                *)
IsMarkedFresh(entry) ==
    /\ "dataState" \in DOMAIN entry
    /\ entry.dataState = "Fresh"

\* The part of C12 that does not depend on the dataState marker.
OneEntryPerSymbol ==
    lastPublished.gen >= 0 =>
        /\ Cardinality(ViewSymbols) = Len(watchlist)
        /\ (CycleSettled /\ Len(symbols) > 0) => ViewSymbols = Range(symbols)
        /\ \A i \in 1..Len(watchlist) :
              IF watchlist[i].symbol \in lastPublished.failed
              THEN watchlist[i].price # 0
              ELSE \E quote \in BatchQuotes :
                      quote.ok /\ watchlist[i].price = quote.regularMarketPrice

C12_FailureIsPerSymbol ==
    /\ OneEntryPerSymbol
    /\ \A i \in 1..Len(watchlist) :
          IF watchlist[i].symbol \in lastPublished.failed
          THEN IsMarkedDegraded(watchlist[i])
          ELSE IsMarkedFresh(watchlist[i])

-----------------------------------------------------------------------------
(* C13: no two batches in flight were started in the same generation, and   *)
(* a trigger (a mutation's invalidation, the 60-second timer, a component   *)
(* mounting the hook) that finds a batch in flight for the symbol list      *)
(* starts no batch: the batch in flight goes on with the responses it has.  *)
InFlight == {key \in DOMAIN queries : queries[key].fetching}

OneBatchPerGeneration ==
    \A k1, k2 \in InFlight :
        queries[k1].batchGen = queries[k2].batchGen => k1 = k2

TriggerCoalesced ==
    call'.op # "respond" =>
        /\ \A key \in InFlight :
              /\ key \in DOMAIN queries'
              /\ queries'[key].fetching
              /\ queries'[key].batchGen = queries[key].batchGen
              /\ queries'[key].resolved = queries[key].resolved
              /\ queries'[key].results = queries[key].results
        /\ symbols' \in InFlight => batches' = batches

C13_OneBatchPerGeneration ==
    /\ []OneBatchPerGeneration
    /\ [][TriggerCoalesced]_vars

C13_Witness ==
    /\ call.op = "refetchInterval"
    /\ IsFetching(queries, symbols)
    /\ queries[symbols].resolved # {}
    /\ Cardinality(InFlight) = 1
    /\ batches = 1

-----------------------------------------------------------------------------
(* C14: every publication replaces the view by the complete result of one   *)
(* settled batch: the data of one query, with an entry for every symbol of  *)
(* its list, each entry the result of a request that has come back.  The    *)
(* view never holds a pending entry, part of a batch, or entries of two     *)
(* batches.                                                                 *)
\* 'list' is the whole result of a batch for 'key'.
WholeBatch(list, key) ==
    /\ Len(list) = Len(key)
    /\ \A i \in 1..Len(key) :
          /\ list[i] # PendingItem
          /\ list[i].symbol = toUpperCase(key[i])

PublishedWhole ==
    (watchlist' # watchlist \/ lastPublished' # lastPublished) =>
        \E key \in DOMAIN queries' :
            /\ queries'[key].hasData
            /\ watchlist' = queries'[key].data
            /\ lastPublished'.gen = queries'[key].dataGen
            /\ WholeBatch(watchlist', key)
            /\ key = symbols'

C14_JoinThenReplace ==
    /\ [](\A i \in 1..Len(watchlist) : watchlist[i] # PendingItem)
    /\ [][PublishedWhole]_vars

C14_Witness ==
    /\ call.op = "respond"
    /\ Len(watchlist) = 3
    /\ lastPublished.failed = {"MSFT"}
    /\ watchlist[1].price # watchlist[2].price
    /\ ~IsFetching(queries, symbols)

-----------------------------------------------------------------------------
(* C15: a mutation that succeeds raises the generation by one and starts a  *)
(* batch of that generation for the new symbol list; a mutation that fails  *)
(* changes neither the store nor the generation and starts no batch.        *)
C15_SuccessStartsCycle ==
    [][ call'.op \in {"addMutation", "removeMutation"} =>
          IF ret' = "true"
          THEN /\ generation' = generation + 1
               /\ symbols' = getSymbolsOf(stored')
               /\ batches' = batches + 1
               /\ IsFetching(queries', symbols')
               /\ queries'[symbols'].batchGen = generation'
          ELSE UNCHANGED <<stored, generation, symbols, queries, batches>> ]_vars

\* The part of C15 that holds: the generation and the symbol list follow a
\* successful mutation, a failed one changes nothing.
GenerationFollowsSuccess ==
    [][ call'.op \in {"addMutation", "removeMutation"} =>
          IF ret' = "true"
          THEN /\ generation' = generation + 1
               /\ symbols' = getSymbolsOf(stored')
          ELSE UNCHANGED <<stored, generation, symbols, queries, batches>> ]_vars

-----------------------------------------------------------------------------
\* The seed list of initializeDefaults.
DefaultSymbols == <<"AAPL", "MSFT", "NVDA">>

\* The defaults whose write succeeded, in seed order.
Seeded(w) ==
    (IF w[1] THEN <<"AAPL">> ELSE <<>>) \o
    (IF w[2] THEN <<"MSFT">> ELSE <<>>) \o
    (IF w[3] THEN <<"NVDA">> ELSE <<>>)

-----------------------------------------------------------------------------
(* C18: add and remove leave every other record as it is (symbol, name and  *)
(* addedAt) and in the order it was in; a record that add creates is the    *)
(* last of the list; remove takes out the records of its symbol only.       *)
\* The records of 'stocks' whose symbol is not t, in their order.
Others(stocks, t) ==
    LET other(stock) == stock.symbol # t
    IN  SelectSeq(stocks, other)

C18_OthersUntouched ==
    [][ /\ call'.op = "addStock" =>
              /\ Len(stored') >= Len(stored)
              /\ \A i \in 1..Len(stored) : stored'[i] = stored[i]
              /\ ret' = "true" =>
                    /\ Len(stored') = Len(stored) + 1
                    /\ stored'[Len(stored')].symbol = toUpperCase(call'.symbol)
                    /\ stored'[Len(stored')].name = call'.name
        /\ call'.op = "removeStock" =>
              /\ Others(stored', toUpperCase(call'.symbol))
                    = Others(stored, toUpperCase(call'.symbol))
              /\ ret' = "true" =>
                    stored' = Others(stored, toUpperCase(call'.symbol))
              /\ ret' = "false" => stored' = stored ]_vars

C18_Witness ==
    /\ call.op = "removeStock"
    /\ call.symbol = "MSFT"
    /\ ret = "true"
    /\ getSymbols = <<"AAPL", "NVDA">>
    /\ stored[1].name = "Apple Inc."
    /\ stored[2].name = "NVIDIA Corporation"

-----------------------------------------------------------------------------
(* C19: the placeholder of a symbol whose request failed depends on the     *)
(* symbol only: when a publication follows another and the request of a     *)
(* symbol failed in both batches, the symbol's price and change are the     *)
(* same in both views.                                                      *)
C19_PlaceholderDeterministic ==
    [][ \A i \in 1..Len(watchlist), j \in 1..Len(watchlist') :
          ( /\ watchlist[i].symbol = watchlist'[j].symbol
            /\ watchlist[i].symbol \in lastPublished.failed
            /\ watchlist'[j].symbol \in lastPublished'.failed ) =>
              /\ watchlist'[j].price = watchlist[i].price
              /\ watchlist'[j].change = watchlist[i].change ]_vars

-----------------------------------------------------------------------------
(* C20: a fetch cycle that is in flight for the current symbol list         *)
(* eventually settles: no quote request stays pending forever.              *)
C20_EveryCycleSettles ==
    (mounted /\ IsFetching(queries, symbols)) ~> CycleSettled

-----------------------------------------------------------------------------
(* The page over a reload *)

\* The watchlist shown and refreshed, and the page reloaded.
SessionNext ==
    \/ \E w \in Writes3 : Mount(w)
    \/ refetchInterval
    \/ \E key \in DOMAIN queries, i \in 1..3, quote \in BatchQuotes,
          rnd \in BatchRandoms :
            Respond(key, i, quote, rnd.price, rnd.change)
    \/ Reload

SessionSpec == Init /\ [][SessionNext]_vars

\* C21: the published view is not kept in durable storage: on a reloaded
\* page the view holds no entry until a synchronization cycle of that page
\* has published one (the view is rebuilt, never restored).
C21_ViewRebuiltAfterReload ==
    (reloads > 0 /\ lastPublished = NoPublish) => watchlist = <<>>

-----------------------------------------------------------------------------
(* useAppStore: the selection and the recent searches *)

\* Array.prototype.slice(0, n)
Slice(seq, n) == SubSeq(seq, 1, IF Len(seq) < n THEN Len(seq) ELSE n)

\* addRecentSearch that keeps an earlier entry of the symbol.
addRecentSearchOn_NoFilter(list, symbol) ==
    Slice(<<toUpperCase(symbol)>> \o list, 5)

\* addRecentSearch: the list after the call.
addRecentSearchOn(list, symbol) ==
    LET filtered == SelectSeq(list, LAMBDA s : s # toUpperCase(symbol))
    IN  Slice(<<toUpperCase(symbol)>> \o filtered, 5)

\* The UI handler that ran last: its argument, what the hook's addStock or
\* removeStock gave it back (mutate() returns undefined and never throws),
\* and the selection and the number of view entries its render held.
Handled(op, symbol) ==
    [op |-> op, symbol |-> symbol, saw |-> "void",
     selected |-> selectedSymbol, entries |-> Len(watchlist)]

\* TickerSearch.handleSelect with onSelect = setSelectedSymbol (the header of
\* the dashboard): the try block runs to its end, whatever the mutation does.
handleSelect(ticker, name, writeOk) ==
    /\ addMutation(ticker, name, writeOk)
    /\ handler' = Handled("handleSelect", ticker)
    /\ selectedSymbol' = ticker
    /\ recentSearches' =
          addRecentSearchOn(addRecentSearchOn(recentSearches, ticker), ticker)
    /\ query' = ""
    /\ searchTimeout' = IF query = "" THEN searchTimeout ELSE NoTimeout
    /\ results' = IF query = "" THEN results ELSE <<>>
    /\ UNCHANGED <<chatVars, searching, searches, loading>>

\* Watchlist.handleSelectStock: a click on an entry of the view.
handleSelectStock(symbol) ==
    /\ \E i \in 1..Len(watchlist) : watchlist[i].symbol = symbol
    /\ handler' = Handled("handleSelectStock", symbol)
    /\ selectedSymbol' = symbol
    /\ recentSearches' = addRecentSearchOn(recentSearches, symbol)
    /\ ret' = "void"
    /\ call' = Call("setSelectedSymbol", "", "", "none")
    /\ UNCHANGED <<storeVars, syncVars, chatVars, searchVars>>

\* handleRemoveStock that selects the first entry of the view.
handleRemoveStock_FirstOfView(symbol, writeOk) ==
    /\ \E i \in 1..Len(watchlist) : watchlist[i].symbol = symbol
    /\ removeMutation(symbol, writeOk)
    /\ handler' = Handled("handleRemoveStock", symbol)
    /\ IF symbol = selectedSymbol /\ Len(watchlist) > 1
       THEN /\ selectedSymbol' = watchlist[1].symbol
            /\ recentSearches' =
                  addRecentSearchOn(recentSearches, watchlist[1].symbol)
       ELSE UNCHANGED <<selectedSymbol, recentSearches>>
    /\ UNCHANGED <<chatVars, searchVars>>

\* Watchlist.handleRemoveStock: the remove button of an entry of the view.
handleRemoveStock(symbol, writeOk) ==
    /\ \E i \in 1..Len(watchlist) : watchlist[i].symbol = symbol
    /\ removeMutation(symbol, writeOk)
    /\ handler' = Handled("handleRemoveStock", symbol)
    /\ LET remaining == SelectSeq(watchlist, LAMBDA item : item.symbol # symbol)
       IN  IF symbol = selectedSymbol /\ Len(watchlist) > 1 /\ Len(remaining) > 0
           THEN /\ selectedSymbol' = remaining[1].symbol
                /\ recentSearches' =
                      addRecentSearchOn(recentSearches, remaining[1].symbol)
           ELSE UNCHANGED <<selectedSymbol, recentSearches>>
    /\ UNCHANGED <<chatVars, searchVars>>

\* The quotes of a gateway that answers every request of the batch.
AnsweredQuotes == {quote \in BatchQuotes : quote.ok}

\* The dashboard used: stocks picked in the ticker search, entries of the
\* view selected and removed, while the gateway answers.
HandlerNext ==
    \/ \E w \in Writes3 : Mount(w)
    \/ \E key \in DOMAIN queries, i \in 1..3, quote \in AnsweredQuotes,
          rnd \in BatchRandoms :
            Respond(key, i, quote, rnd.price, rnd.change)
    \/ \E t \in Tickers, n \in Names, ok \in BOOLEAN : handleSelect(t, n, ok)
    \/ \E t \in Tickers : handleSelectStock(t)
    \/ \E t \in Tickers, ok \in BOOLEAN : handleRemoveStock(t, ok)

HandlerSpec == Init /\ [][HandlerNext]_vars

-----------------------------------------------------------------------------
(* Claims about the UI handlers *)

\* C22: a store mutation that fails (its store operation returns false) comes
\* back to the UI handler that asked for it as a failure: the handler gets
\* something else than the "void" it gets from a successful change.
C22_FailureReachesHandler ==
    [][\A t \in Tickers, ok \in BOOLEAN :
          ( /\ \/ \E n \in Names : handleSelect(t, n, ok)
               \/ handleRemoveStock(t, ok)
            /\ ret' = "false" )
          => handler'.saw # "void"]_vars

\* C26: when the remove button of the selected symbol is used while the view
\* holds more than one entry, the selection moves to the first entry of the
\* view that is left, and so off the removed symbol.
C26_SelectionMovesOffRemoved ==
    [][\A t \in Tickers, ok \in BOOLEAN :
          (handleRemoveStock(t, ok) /\ t = selectedSymbol /\ Len(watchlist) > 1)
          => LET remaining == SelectSeq(watchlist, LAMBDA item : item.symbol # t)
             IN  /\ selectedSymbol' = remaining[1].symbol
                 /\ selectedSymbol' # t]_vars

\* The selected first entry of a view of three was removed.
C26_Witness ==
    /\ handler.op = "handleRemoveStock"
    /\ handler.symbol = handler.selected
    /\ handler.entries = 3
    /\ handler.symbol = "AAPL"
    /\ selectedSymbol = "MSFT"

-----------------------------------------------------------------------------
(* The watchlist refreshed against every kind of quote *)

QuoteNext ==
    \/ \E w \in Writes3 : Mount(w)
    \/ refetchInterval
    \/ \E key \in DOMAIN queries, i \in 1..3, quote \in Quotes,
          rnd \in BatchRandoms :
            Respond(key, i, quote, rnd.price, rnd.change)

QuoteSpec == Init /\ [][QuoteNext]_vars

\* The display name the store holds for a symbol, "" when it holds none.
StoredName(symbol) ==
    IF \E i \in 1..Len(stored) : stored[i].symbol = symbol
    THEN stored[CHOOSE i \in 1..Len(stored) : stored[i].symbol = symbol].name
    ELSE ""

\* The quote has the fields an entry needs: a price.
Usable(quote) == quote.ok /\ quote.regularMarketPrice # 0

\* C23: a quote request that succeeds with usable fields gives an entry that
\* is marked Fresh, has the price and the change of the response, and has
\* the name of the response when it carries one and otherwise the display
\* name the store holds for the symbol.
C23_FreshEntryFromResponse ==
    [][\A key \in DOMAIN queries, i \in 1..3, quote \in Quotes,
          rnd \in BatchRandoms :
          (Respond(key, i, quote, rnd.price, rnd.change) /\ Usable(quote))
          => LET entry == queries'[key].results[i]
             IN  /\ entry.price = quote.regularMarketPrice
                 /\ entry.change = quote.regularMarketChange
                 /\ entry.name = IF quote.longName # ""
                                 THEN quote.longName
                                 ELSE StoredName(key[i])
                 /\ IsMarkedFresh(entry)]_vars

-----------------------------------------------------------------------------
(* C24: within a cycle the Gateway is asked once per symbol: a request that  *)
(* has failed is not sent again, and the symbol stays failed in the batch.   *)
(* The 60-second timer starts the next cycle, so a symbol whose request has  *)
(* failed and that stays watched is asked for again in the end.              *)

\* The request for t of the cycle for the current symbol list has failed.
RequestFailed(t) ==
    /\ mounted
    /\ t \in Range(symbols)
    /\ symbols \in DOMAIN queries
    /\ \/ queries[symbols].fetching /\ t \in queries[symbols].failed
       \/ ~queries[symbols].fetching /\ t \in queries[symbols].dataFailed

\* A request for t is out for the current symbol list.
RequestOut(t) ==
    /\ IsFetching(queries, symbols)
    /\ \E i \in 1..Len(symbols) :
          symbols[i] = t /\ i \notin queries[symbols].resolved

\* A failed request is settled for its batch.
NoRetryInCycle ==
    [][\A key \in DOMAIN queries, i \in 1..3, quote \in BatchQuotes,
          rnd \in BatchRandoms :
          (Respond(key, i, quote, rnd.price, rnd.change) /\ ~quote.ok)
          => /\ key[i] \in (IF queries'[key].fetching
                            THEN queries'[key].failed
                            ELSE queries'[key].dataFailed)
             /\ i \in queries'[key].resolved]_vars

\* The answers a batch has are kept while it is in flight.
AnswersKept ==
    [][\A key \in DOMAIN queries :
          (queries[key].fetching /\ queries'[key].fetching)
          => /\ queries[key].resolved \subseteq queries'[key].resolved
             /\ queries[key].failed \subseteq queries'[key].failed]_vars

FailedIsAskedAgain ==
    \A t \in Tickers :
        (RequestFailed(t) /\ batches < MaxBatches) ~> (RequestOut(t) \/ ~InStore(t))

C24_OncePerCycleThenAgain ==
    /\ NoRetryInCycle
    /\ AnswersKept
    /\ FailedIsAskedAgain

-----------------------------------------------------------------------------
(* C25: every view that is published lists its entries in the order of the  *)
(* store's symbol list, whatever the order in which the responses arrived.  *)

\* The symbols of the view, in the order of the view.
ViewOrder(view) == [i \in 1..Len(view) |-> view[i].symbol]

C25_ViewInStoreOrder ==
    [][(watchlist' # watchlist \/ lastPublished' # lastPublished)
          => ViewOrder(watchlist') = getSymbolsOf(stored')]_vars

\* A view of two was published for a store that lists NVDA before AAPL.
C25_Witness ==
    /\ call.op = "respond"
    /\ lastPublished.gen = generation
    /\ ViewOrder(watchlist) = <<"NVDA", "AAPL">>

-----------------------------------------------------------------------------
(* useAppStore: the recent searches, called directly *)

\* Symbols a caller may search for or select: more than the list keeps.
SearchedSymbols == Spellings \cup {"TSLA", "AMZN", "GOOG"}

addRecentSearch(symbol) ==
    /\ recentSearches' = addRecentSearchOn(recentSearches, symbol)
    /\ ret' = "void"
    /\ call' = Call("addRecentSearch", "", "", "none")
    /\ UNCHANGED <<storeVars, syncVars, handler, selectedSymbol, chatVars,
                   searchVars>>

setSelectedSymbol(symbol) ==
    /\ selectedSymbol' = symbol
    /\ recentSearches' = addRecentSearchOn(recentSearches, symbol)
    /\ ret' = "void"
    /\ call' = Call("setSelectedSymbol", "", "", "none")
    /\ UNCHANGED <<storeVars, syncVars, handler, chatVars, searchVars>>

clearRecentSearches ==
    /\ recentSearches' = <<>>
    /\ ret' = "void"
    /\ call' = Call("clearRecentSearches", "", "", "none")
    /\ UNCHANGED <<storeVars, syncVars, handler, selectedSymbol, chatVars,
                   searchVars>>

SearchesNext ==
    \/ \E s \in SearchedSymbols : addRecentSearch(s)
    \/ \E s \in SearchedSymbols : setSelectedSymbol(s)
    \/ clearRecentSearches

SearchesSpec == Init /\ [][SearchesNext]_vars

\* C27: whatever addRecentSearch, setSelectedSymbol and clearRecentSearches
\* calls were made, recentSearches holds at most five symbols, none twice,
\* all in upper case, and a call that adds or selects a symbol leaves that
\* symbol, in upper case, in first position.
RecentSearchesWellFormed ==
    /\ Len(recentSearches) <= 5
    /\ \A i, j \in 1..Len(recentSearches) :
          recentSearches[i] = recentSearches[j] => i = j
    /\ \A i \in 1..Len(recentSearches) :
          toUpperCase(recentSearches[i]) = recentSearches[i]

C27_RecentSearches ==
    /\ []RecentSearchesWellFormed
    /\ [][\A s \in SearchedSymbols :
             (addRecentSearch(s) \/ setSelectedSymbol(s))
             => /\ Len(recentSearches') > 0
                /\ recentSearches'[1] = toUpperCase(s)]_vars

\* A sixth symbol was added to a full list, and the oldest one dropped.
C27_Witness ==
    /\ call.op = "addRecentSearch"
    /\ recentSearches = <<"AAPL", "GOOG", "AMZN", "TSLA", "MSFT">>

-----------------------------------------------------------------------------
(* AgentPanel: the chat *)

\* Chat messages the transcript may grow to.
MaxChat == 5

\* AgentPanel mounts the page may see.
MaxPanels == 2

\* What the user may have typed into the textarea.
Typed == {"", " ", "hi"}

\* String.prototype.trim
trim(s) == IF s = " " THEN "" ELSE s

Apology == "Sorry, I encountered an error. Please try again."

\* A chat message; answers is the position of the user message whose
\* handleSend call appended it (0 for a user message and for the welcome).
ChatMessage(role, content, answers) ==
    [role |-> role, content |-> content, answers |-> answers]

\* handleInputChange: the textarea is disabled while isTyping.
handleInputChange(text) ==
    /\ ~isTyping
    /\ text # input
    /\ input' = text
    /\ ret' = "void"
    /\ call' = Call("handleInputChange", "", "", "none")
    /\ UNCHANGED <<storeVars, syncVars, selectionVars, chatMessages, isTyping,
                   panel, sending, searchVars>>

\* handleSend up to its await: the guard, the user message, the typing
\* indicator and the sendMessage call.
handleSend ==
    /\ IF trim(input) = "" \/ isTyping
       THEN UNCHANGED <<chatMessages, isTyping, input, sending>>
       ELSE /\ Len(chatMessages) + Cardinality(sending) + 2 <= MaxChat
            /\ input' = ""
            /\ chatMessages' =
                  Append(chatMessages, ChatMessage("user", trim(input), 0))
            /\ isTyping' = TRUE
            /\ sending' = sending \cup
                  {[message |-> Len(chatMessages) + 1, panel |-> panel]}
    /\ ret' = "void"
    /\ call' = Call("handleSend", "", "", "none")
    /\ UNCHANGED <<storeVars, syncVars, selectionVars, panel, searchVars>>

\* handleSend after its await that clears the indicator in the try block.
sendMessageSettles_NoFinally(request, resolved) ==
    /\ request \in sending
    /\ sending' = sending \ {request}
    /\ chatMessages' =
          Append(chatMessages,
                 ChatMessage("assistant",
                             IF resolved THEN "response" ELSE Apology,
                             request.message))
    /\ isTyping' = IF request.panel = panel /\ resolved THEN FALSE ELSE isTyping
    /\ ret' = "void"
    /\ call' = Call("sendMessage", "", "", "none")
    /\ UNCHANGED <<storeVars, syncVars, selectionVars, input, panel, searchVars>>

\* handleSend after its await: sendMessage has resolved (the mock agent's
\* timer has fired) or rejected (the catch block; the mock agent never
\* rejects).  setIsTyping belongs to the panel that sent the message: it does
\* nothing once that panel is unmounted.
sendMessageSettles(request, resolved) ==
    /\ request \in sending
    /\ sending' = sending \ {request}
    /\ chatMessages' =
          Append(chatMessages,
                 ChatMessage("assistant",
                             IF resolved THEN "response" ELSE Apology,
                             request.message))
    /\ isTyping' = IF request.panel = panel THEN FALSE ELSE isTyping
    /\ ret' = "void"
    /\ call' = Call("sendMessage", "", "", "none")
    /\ UNCHANGED <<storeVars, syncVars, selectionVars, input, panel, searchVars>>

\* Another AgentPanel mounts in place of the mounted one (the dashboard and
\* the ticker page each render their own; the dashboard's is rendered while
\* chatPanelOpen): its useState starts anew, useAppStore.chatMessages stays.
mountAgentPanel ==
    /\ panel < MaxPanels
    /\ panel' = panel + 1
    /\ isTyping' = FALSE
    /\ input' = ""
    /\ ret' = "void"
    /\ call' = Call("mountAgentPanel", "", "", "none")
    /\ UNCHANGED <<storeVars, syncVars, selectionVars, chatMessages, sending,
                   searchVars>>

ChatNext ==
    \/ \E text \in Typed : handleInputChange(text)
    \/ handleSend
    \/ \E request \in sending, resolved \in BOOLEAN :
          sendMessageSettles(request, resolved)
    \/ mountAgentPanel

ChatSpec == Init /\ [][ChatNext]_vars

\* The timer of sendMessage fires: every call settles.
ChatFairSpec ==
    /\ ChatSpec
    /\ WF_vars(\E request \in sending, resolved \in BOOLEAN :
                  sendMessageSettles(request, resolved))

\* C28: at most one sendMessage call is outstanding at any time, and a send
\* attempted while a reply is pending or with blank input appends no message
\* and starts no request.
C28_OneRequestOutstanding ==
    /\ [](Cardinality(sending) <= 1)
    /\ [][(handleSend /\ (trim(input) = "" \/ sending # {}))
             => UNCHANGED <<chatMessages, sending>>]_vars

-----------------------------------------------------------------------------
(* C29: every user message the panel accepts gets exactly one assistant     *)
(* message, appended after it: the reply, or the apology when the call      *)
(* fails; in both cases the typing indicator of the panel is cleared, so    *)
(* the panel never stays blocked.                                           *)

\* Positions of the assistant messages appended for the user message at u.
Answers(u) ==
    {i \in 1..Len(chatMessages) :
        chatMessages[i].role = "assistant" /\ chatMessages[i].answers = u}

Outstanding(u) == \E request \in sending : request.message = u

\* A user message is waiting for its one answer or has it, further down.
OneAnswerEach ==
    \A u \in 1..Len(chatMessages) :
        chatMessages[u].role = "user"
        => /\ Cardinality(Answers(u)) = IF Outstanding(u) THEN 0 ELSE 1
           /\ \A i \in Answers(u) :
                 /\ i > u
                 /\ chatMessages[i].content \in {"response", Apology}

C29_EveryMessageAnswered ==
    /\ []OneAnswerEach
    /\ \A u \in 1..MaxChat : Outstanding(u) ~> (Answers(u) # {} /\ ~Outstanding(u))
    /\ isTyping ~> ~isTyping

\* The call for the user's message failed: the apology is in the transcript
\* after it, and the indicator is off.
C29_Witness ==
    /\ call.op = "sendMessage"
    /\ Len(chatMessages) = 3
    /\ chatMessages[2].role = "user"
    /\ chatMessages[3] = ChatMessage("assistant", Apology, 2)
    /\ ~isTyping
    /\ sending = {}

-----------------------------------------------------------------------------
(* TickerSearch: the debounced search *)

\* searchTickers calls the page may make.
MaxSearches == 3

\* What the user may have typed into the search input.
Queries == {"", "a", "ab"}

\* response.results of the search route for a query.
SearchResults(q) ==
    CASE q = "a" -> <<"AAPL", "AMZN">>
      [] q = "ab" -> <<"ABNB">>
      [] OTHER -> <<>>

\* onValueChange = setQuery, and the effect on [query]: the pending timer is
\* cleared; a blank query empties the results, any other starts a timer.
setQuery(q) ==
    /\ q # query
    /\ query' = q
    /\ IF trim(q) = ""
       THEN /\ results' = <<>>
            /\ searchTimeout' = NoTimeout
       ELSE /\ searchTimeout' = q
            /\ UNCHANGED results
    /\ ret' = "void"
    /\ call' = Call("setQuery", "", "", "none")
    /\ UNCHANGED <<storeVars, syncVars, selectionVars, chatVars, searching,
                   searches, loading>>

\* The 250 ms timer fires: setLoading(true) and api.searchTickers(query) for
\* the query the timer was set with.
searchTimeoutFires ==
    /\ searchTimeout # NoTimeout
    /\ searches < MaxSearches
    /\ searches' = searches + 1
    /\ searching' = searching \cup {[id |-> searches', query |-> searchTimeout]}
    /\ searchTimeout' = NoTimeout
    /\ loading' = TRUE
    /\ ret' = "void"
    /\ call' = Call("searchTimeout", "", "", "none")
    /\ UNCHANGED <<storeVars, syncVars, selectionVars, chatVars, query, results>>

\* await api.searchTickers comes back: the response's results, or [] in the
\* catch block; then setLoading(false).
searchTickersSettles(request, resolved) ==
    /\ request \in searching
    /\ searching' = searching \ {request}
    /\ results' = IF resolved THEN SearchResults(request.query) ELSE <<>>
    /\ loading' = FALSE
    /\ ret' = "void"
    /\ call' = Call("searchTickers", "", "", "none")
    /\ UNCHANGED <<storeVars, syncVars, selectionVars, chatVars, query,
                   searchTimeout, searches>>

SearchNext ==
    \/ \E q \in Queries : setQuery(q)
    \/ searchTimeoutFires
    \/ \E request \in searching, resolved \in BOOLEAN :
          searchTickersSettles(request, resolved)

SearchSpec == Init /\ [][SearchNext]_vars

\* What the list shows.
displayResults == IF trim(query) # "" THEN results ELSE <<>>

\* C30: once no search is pending or in flight, the results shown are those
\* of the search for the latest query (none when that search failed or the
\* query is blank): the response of a search for an earlier query has not
\* overwritten them.
C30_LatestQueryWins ==
    (searching = {} /\ searchTimeout = NoTimeout)
    => displayResults \in {SearchResults(query), <<>>}

====
